---- MODULE Spec2Model ----
(***************************************************************************)
(* Model of the ETT issue-tracker client service (ettService).             *)
(*                                                                         *)
(* The repository carries two versions of the service module:              *)
(*   - the login-based service   (apiUrl from env, auth obtained by login) *)
(*   - the token-config service  (apiUrl + accessToken given to configure) *)
(* The variable `variant` fixes which of the two modules is the loaded     *)
(* one; both share the request / createIssues / testConnection code.       *)
(*                                                                         *)
(* Every async method is cut at its await points: Invoke runs the          *)
(* synchronous prefix up to the first fetch, Respond resolves the fetch,   *)
(* Settle resolves the response.json() promise and runs the continuation   *)
(* up to the next fetch.                                                   *)
(*                                                                         *)
(* Five specifications share the module:                                   *)
(*   Spec         the service and its callers                              *)
(*   SpecParser   parseTicketsFromSummary applied to bounded summaries     *)
(*   SpecStore    the parser in every state of the session / config store  *)
(*   SpecReview   TicketReview.handlePush over the login-based service     *)
(*   SpecSettings the ETTSettings form over the token-config service       *)
(***************************************************************************)
EXTENDS Integers, Sequences, FiniteSets, TLC

VARIABLES
  variant,       \* "login" | "config": which service module is loaded
  window,        \* TRUE iff typeof window !== 'undefined' (browser context)
  apiUrl,        \* login service: this.apiUrl (from NEXT_PUBLIC_ETT_API_URL)
  auth,          \* login service: this.auth   (ETTAuthState | null)
  config,        \* token-config service: this.config (ETTConfig | null)
  localStorage,  \* the browser key-value store, key -> item
  calls,         \* the async method invocations, one per caller slot
  inflight,      \* HTTP requests dispatched by fetch and not yet answered
  remoteIssues,  \* per caller slot, the issues the remote side created for it
  storageUsed,   \* TRUE iff the service has read or written localStorage
  last,          \* the most recent operation on the session / config record
  summaryMarkdown, \* the meeting summary handed to parseTicketsFromSummary, as its blocks
  parsed,        \* what parseTicketsFromSummary returned for it
  tickets,       \* TicketReview: the parsed tickets with their checkboxes
  selectedBoardId, \* TicketReview: the board chosen in the selector, or null
  isPushing,     \* TicketReview: handlePush awaits createIssues
  error,         \* TicketReview: the error shown, "" for null
  success,       \* TicketReview: the success message shown, "" for null
  issues,        \* TicketReview: the list handlePush handed to createIssues
  isTesting,     \* ETTSettings: handleTest awaits testConnection
  testResult,    \* ETTSettings: the result shown, or null
  settingsIsConfigured, \* ETTSettings: the isConfigured state of the component
  tempConfig     \* ETTSettings: the tempConfig of the running handleTest

\* the state of the service
serviceVars == <<variant, window, apiUrl, auth, config, localStorage, calls,
                 inflight, remoteIssues, storageUsed, last>>

\* the state of the ticket review that uses the service
reviewVars == <<summaryMarkdown, parsed, tickets, selectedBoardId, isPushing, error,
                success, issues>>

\* the state of the settings form that uses the token-config service
settingsVars == <<isTesting, testResult, settingsIsConfigured, tempConfig>>

vars == <<variant, window, apiUrl, auth, config, localStorage, calls,
          inflight, remoteIssues, storageUsed, last, summaryMarkdown, parsed,
          tickets, selectedBoardId, isPushing, error, success, issues,
          isTesting, testResult, settingsIsConfigured, tempConfig>>

-----------------------------------------------------------------------------
(* Bounds *)

\* longest list handed to createIssues
MaxBatch == 3

\* most blocks (lines, or the two lines that head a table) of a meeting summary
MaxBlocks == 3

-----------------------------------------------------------------------------
(* JavaScript values *)

\* null, as held by this.auth / this.config
Null == [kind |-> "null"]

\* undefined for string-valued and for number-valued properties
undefined == "<undefined>"
UndefinedNum == 0 - 1

\* !!v for a string-valued property
TruthyStr(v) == v # undefined /\ v # ""

\* !!v for a number-valued property
TruthyNum(v) == v # UndefinedNum /\ v # 0

\* a || b for string-valued and number-valued operands
OrStr(a, b) == IF TruthyStr(a) THEN a ELSE b
OrNum(a, b) == IF TruthyNum(a) THEN a ELSE b

-----------------------------------------------------------------------------
(* Storage keys and the persisted items *)

ETT_AUTH_KEY == "ett_auth"
ETT_CONFIG_KEY == "ett_config"
StorageKeys == {ETT_AUTH_KEY, ETT_CONFIG_KEY}

\* the key the loaded service module uses
StorageKey == IF variant = "login" THEN ETT_AUTH_KEY ELSE ETT_CONFIG_KEY

NoFields == [k \in {} |-> 0]

\* localStorage.getItem gives null for a missing key
NoItem == [kind |-> "none", fields |-> NoFields]
\* texts that are not a JSON object
EmptyText == [kind |-> "empty", fields |-> NoFields]
CorruptText == [kind |-> "corrupt", fields |-> NoFields]
NullText == [kind |-> "jsonnull", fields |-> NoFields]

NumberFields == {"userId", "defaultBoardId", "defaultReporterId"}

\* obj[k] === undefined
IsUndefined(obj, k) ==
  IF k \in NumberFields THEN obj[k] = UndefinedNum ELSE obj[k] = undefined

\* JSON.stringify(obj): the properties whose value is undefined are omitted
JSONstringify(obj) ==
  [kind |-> "object",
   fields |-> [k \in {f \in DOMAIN obj : ~IsUndefined(obj, f)} |-> obj[k]]]

\* reading property k of a parsed object: undefined when the text lacks it
Prop(fields, k, undef) == IF k \in DOMAIN fields THEN fields[k] ELSE undef

\* JSON.parse(text) typed as ETTAuthState; raises on text that is not JSON
ParseAuth(item) ==
  IF item.kind = "object"
  THEN [accessToken |-> Prop(item.fields, "accessToken", undefined),
        refreshToken |-> Prop(item.fields, "refreshToken", undefined),
        userId |-> Prop(item.fields, "userId", UndefinedNum),
        userName |-> Prop(item.fields, "userName", undefined)]
  ELSE Null

\* JSON.parse(text) typed as ETTConfig; raises on text that is not JSON
ParseConfig(item) ==
  IF item.kind = "object"
  THEN [apiUrl |-> Prop(item.fields, "apiUrl", undefined),
        accessToken |-> Prop(item.fields, "accessToken", undefined),
        defaultBoardId |-> Prop(item.fields, "defaultBoardId", UndefinedNum),
        defaultReporterId |-> Prop(item.fields, "defaultReporterId", UndefinedNum)]
  ELSE Null

\* loadAuth: this.auth after construction
loadAuth(win, item) ==
  IF ~win THEN Null
  ELSE IF item.kind \in {"none", "empty"} THEN Null
  ELSE ParseAuth(item)

\* loadConfig: this.config after construction
loadConfig(win, item) ==
  IF ~win THEN Null
  ELSE IF item.kind \in {"none", "empty"} THEN Null
  ELSE ParseConfig(item)

-----------------------------------------------------------------------------
(* Inputs *)

\* the callers of the shared singleton `ettService`: the two components that
\* import it, each awaiting one method at a time
Calls == {"ETTSettings", "TicketReview"}

\* process.env.NEXT_PUBLIC_ETT_API_URL || ''
EnvApiUrls == {"", "https://ett"}

\* bodies of a 2xx answer to POST /login
LoginPayloads ==
  { [access_token |-> "tokA", refresh_token |-> "refA", user_id |-> 7, id |-> UndefinedNum,
     username |-> "alice", name |-> undefined],
    [access_token |-> "tokB", refresh_token |-> undefined, user_id |-> UndefinedNum, id |-> UndefinedNum,
     username |-> undefined, name |-> undefined],
    [access_token |-> undefined, refresh_token |-> undefined, user_id |-> UndefinedNum, id |-> 7,
     username |-> undefined, name |-> "alice"] }

\* the username typed into the login form
Usernames == {"bob"}

\* arguments of configure
ConfigInputs ==
  { [apiUrl |-> "https://ett", accessToken |-> "tokA", defaultBoardId |-> 3, defaultReporterId |-> 7],
    [apiUrl |-> "https://ett", accessToken |-> "tokB", defaultBoardId |-> UndefinedNum, defaultReporterId |-> UndefinedNum],
    [apiUrl |-> "", accessToken |-> "tokA", defaultBoardId |-> UndefinedNum, defaultReporterId |-> UndefinedNum],
    [apiUrl |-> "https://ett", accessToken |-> "", defaultBoardId |-> UndefinedNum, defaultReporterId |-> UndefinedNum] }

\* a session as an earlier page load left it
StoredAuth ==
  [accessToken |-> "tokA", refreshToken |-> "refA", userId |-> 7, userName |-> "alice"]

\* what the key can hold when the service is constructed
StoredItems(v) ==
  { NoItem, EmptyText, CorruptText, NullText, [kind |-> "object", fields |-> NoFields] }
    \cup (IF v = "login" THEN {JSONstringify(StoredAuth)}
          ELSE {JSONstringify(cfg) : cfg \in ConfigInputs})

\* the i-th create request of a batch: createIssues(<<Issue(1), ..., Issue(n)>>)
Issue(i) == [title |-> i]

-----------------------------------------------------------------------------
(* The session / config store *)

\* hasApiUrl(): !!this.apiUrl
hasApiUrl == TruthyStr(apiUrl)

\* HasAccessToken that tests the record only: `!!a`
HasRecord(a) == a # Null

\* !!a?.accessToken for a held record a
HasAccessToken(a) == a # Null /\ TruthyStr(a.accessToken)

\* isAuthenticated(): !!this.auth?.accessToken
isAuthenticated == HasAccessToken(auth)

\* AuthStateOf that spreads the held record into the view
AuthStateWithRecord(a) ==
  [isAuthenticated |-> HasAccessToken(a),
   userName |-> IF a = Null THEN undefined ELSE a.userName,
   userId |-> IF a = Null THEN UndefinedNum ELSE a.userId,
   accessToken |-> IF a = Null THEN undefined ELSE a.accessToken]

\* getAuthState() of a held record a
AuthStateOf(a) ==
  [isAuthenticated |-> HasAccessToken(a),
   userName |-> IF a = Null THEN undefined ELSE a.userName,
   userId |-> IF a = Null THEN UndefinedNum ELSE a.userId]

\* getAuthState()
getAuthState == AuthStateOf(auth)

\* IsConfiguredRecord without the `!!this.config.apiUrl` conjunct
IsConfiguredTokenOnly(cfg) ==
  cfg # Null /\ TruthyStr(cfg.accessToken)

\* isConfigured() of a held record cfg
IsConfiguredRecord(cfg) ==
  cfg # Null /\ TruthyStr(cfg.apiUrl) /\ TruthyStr(cfg.accessToken)

\* isConfigured()
isConfigured == IsConfiguredRecord(config)

\* getConfig() of a held record cfg
ConfigViewOf(cfg) ==
  IF cfg = Null THEN Null
  ELSE [apiUrl |-> cfg.apiUrl,
        defaultBoardId |-> cfg.defaultBoardId,
        defaultReporterId |-> cfg.defaultReporterId,
        hasToken |-> TruthyStr(cfg.accessToken)]

\* getConfig()
getConfig == ConfigViewOf(config)

\* SetItem without the typeof-window guard
SetItemUnguarded(key, item) ==
  /\ localStorage' = [localStorage EXCEPT ![key] = item]
  /\ storageUsed' = TRUE

\* localStorage.setItem(key, text) / removeItem(key), guarded by typeof window
SetItem(key, item) ==
  /\ localStorage' = IF window THEN [localStorage EXCEPT ![key] = item] ELSE localStorage
  /\ storageUsed' = (storageUsed \/ window)

RemoveItem(key) == SetItem(key, NoItem)

\* saveAuth that keeps the session in memory only
saveAuthInMemory(a) ==
  /\ auth' = a
  /\ UNCHANGED <<localStorage, storageUsed>>

\* saveAuth(a)
saveAuth(a) ==
  /\ auth' = a
  /\ SetItem(ETT_AUTH_KEY, JSONstringify(a))

\* ClearAuth that forgets the persisted copy
ClearAuthInMemory ==
  /\ auth' = Null
  /\ UNCHANGED <<localStorage, storageUsed>>

\* the body of logout(), also run by request() on a 401
ClearAuth ==
  /\ auth' = Null
  /\ RemoveItem(ETT_AUTH_KEY)

\* logout()
Logout ==
  /\ variant = "login"
  /\ ClearAuth
  /\ last' = "logout"
  /\ UNCHANGED <<variant, window, apiUrl, config, calls, inflight, remoteIssues, reviewVars, settingsVars>>

\* configure(cfg)
Configure(cfg) ==
  /\ variant = "config"
  /\ config' = cfg
  /\ SetItem(ETT_CONFIG_KEY, JSONstringify(cfg))
  /\ last' = "configure"
  /\ UNCHANGED <<variant, window, apiUrl, auth, calls, inflight, remoteIssues, reviewVars, settingsVars>>

\* clearConfig()
ClearConfig ==
  /\ variant = "config"
  /\ config' = Null
  /\ RemoveItem(ETT_CONFIG_KEY)
  /\ last' = "clearConfig"
  /\ UNCHANGED <<variant, window, apiUrl, auth, calls, inflight, remoteIssues, reviewVars, settingsVars>>

-----------------------------------------------------------------------------
(* The remote client *)

NoError == ""
ErrNoApiUrl == "API URL not configured. Check .env file."
ErrNotAuthenticated == "Not authenticated. Please login first."
ErrSessionExpired == "Session expired. Please login again."
ErrNotConfigured == "ETT Service not configured. Call configure() first."
\* error.message || `ETT API error: ${response.status}` of a non-2xx answer
ErrRemote == "ETT API error"
\* error.message || 'Invalid credentials' of a non-2xx answer to login
ErrInvalidCredentials == "Invalid credentials"
\* the TypeError a fetch carries that the transport rejected
ErrFetch == "fetch failed"
\* the TypeError a fetch carries that could not resolve its URL (nothing is sent)
ErrInvalidUrl == "Failed to parse URL"

ConfigurationErrors == {ErrNoApiUrl, ErrNotAuthenticated, ErrNotConfigured}

GetOps == {"getBoards", "getTeamMembers", "getLabels"}
AuthorizedOps == GetOps \cup {"createIssue", "createIssues", "testConnection"}

BoardsEndpoint == "/issue-tracker/boards"
IssuesEndpoint == "/issue-tracker/issues"
LoginEndpoint == "/login"

\* the endpoint an operation asks request() for
EndpointOf(op) ==
  CASE op \in {"getBoards", "testConnection"} -> BoardsEndpoint
    [] op = "getTeamMembers" -> "/issue-tracker/team-members"
    [] op = "getLabels" -> "/issue-tracker/boards/{id}/labels"
    [] op \in {"createIssue", "createIssues"} -> IssuesEndpoint
    [] OTHER -> LoginEndpoint

\* a request without an Authorization header, and one without an issue body
NoAuthorization == "<no authorization header>"
NoBody == [title |-> 0]

IdleCall ==
  [op |-> "none", pc |-> "idle", n |-> 0, results |-> <<>>, status |-> "none",
   data |-> NoBody, outcome |-> "pending", success |-> FALSE, message |-> NoError]

\* a call as its method starts running
NewCall(op, n) == [IdleCall EXCEPT !.op = op, !.pc = "run", !.n = n]

\* RequestError for a login-based request() without the `!this.apiUrl` guard
RequestErrorSkipsApiUrl ==
  IF variant = "login"
  THEN IF ~isAuthenticated THEN ErrNotAuthenticated ELSE NoError
  ELSE IF config = Null THEN ErrNotConfigured
       ELSE NoError

\* the guards at the head of request(): the error thrown, or NoError
RequestError ==
  IF variant = "login"
  THEN IF ~hasApiUrl THEN ErrNoApiUrl
       ELSE IF ~isAuthenticated THEN ErrNotAuthenticated
       ELSE NoError
  ELSE IF config = Null THEN ErrNotConfigured
       ELSE NoError

\* the base URL request() builds the fetch URL from
BaseUrl == IF variant = "login" THEN apiUrl ELSE config.apiUrl

\* the token getHeaders() puts after "Bearer "
BearerToken == IF variant = "login" THEN auth.accessToken ELSE config.accessToken

\* fetch(url) sends a request: a relative URL resolves only against a page origin
FetchSends(base) == TruthyStr(base) \/ window

\* the element of the batch the loop of createIssues submits next
NextIssue(k) == Len(k.results) + 1

\* the body request() is given by the operation
BodyOf(k) == IF k.op \in {"createIssue", "createIssues"} THEN Issue(NextIssue(k)) ELSE NoBody

\* the fetch of request(endpoint, options) for call c
AuthorizedRequest(c, k) ==
  [call |-> c, endpoint |-> EndpointOf(k.op), baseUrl |-> BaseUrl,
   bearer |-> BearerToken, body |-> BodyOf(k)]

\* the fetch of login()
LoginRequest(c) ==
  [call |-> c, endpoint |-> LoginEndpoint, baseUrl |-> apiUrl,
   bearer |-> NoAuthorization, body |-> NoBody]

\* Failed for methods without a try/catch: every error reaches the caller
FailedUncaught(k, msg) ==
  [k EXCEPT !.pc = "done", !.data = NoBody,
            !.outcome = "rejected", !.success = FALSE, !.message = msg]

\* the call after an error was thrown inside it: login and testConnection catch
\* it and return {success: false, message}, the others reject
Failed(k, msg) ==
  [k EXCEPT !.pc = "done", !.data = NoBody,
            !.outcome = IF k.op \in {"login", "testConnection"} THEN "resolved" ELSE "rejected",
            !.success = FALSE,
            !.message = msg]

\* the call after its method returned
Returned(k) ==
  [k EXCEPT !.pc = "done", !.data = NoBody,
            !.outcome = "resolved", !.success = TRUE, !.message = NoError]

\* request() up to its fetch, run for call c in state k: the call afterwards
AfterRequest(k) ==
  IF RequestError # NoError THEN Failed(k, RequestError)
  ELSE IF ~FetchSends(BaseUrl) THEN Failed(k, ErrInvalidUrl)
  ELSE [k EXCEPT !.pc = "fetch"]

\* SentByRequest for a createIssues that maps createIssue over the list without
\* awaiting: the following element is sent along with the current one
SentByRequestUnawaited(c, k) ==
  IF RequestError = NoError /\ FetchSends(BaseUrl)
  THEN {AuthorizedRequest(c, k)}
         \cup (IF k.op = "createIssues" /\ NextIssue(k) < k.n
               THEN {[AuthorizedRequest(c, k) EXCEPT !.body = Issue(NextIssue(k) + 1)]}
               ELSE {})
  ELSE {}

\* request() up to its fetch, run for call c in state k: the requests it sends
SentByRequest(c, k) ==
  IF RequestError = NoError /\ FetchSends(BaseUrl) THEN {AuthorizedRequest(c, k)} ELSE {}

\* login() up to its fetch
AfterLogin(k) ==
  IF ~hasApiUrl THEN Failed(k, ErrNoApiUrl) ELSE [k EXCEPT !.pc = "fetch"]

SentByLogin(c) == IF hasApiUrl THEN {LoginRequest(c)} ELSE {}

\* a caller invokes an async method of the service; the method runs to its
\* first await
Invoke(c, op, n) ==
  /\ calls[c].pc \in {"idle", "done"}
  /\ remoteIssues' = [remoteIssues EXCEPT ![c] = <<>>]
  /\ UNCHANGED <<variant, window, apiUrl, auth, config, localStorage, storageUsed, last, reviewVars, settingsVars>>
  /\ LET k == NewCall(op, n) IN
     \/ /\ op = "login"
        /\ variant = "login"
        /\ n = 0
        /\ calls' = [calls EXCEPT ![c] = AfterLogin(k)]
        /\ inflight' = inflight \cup SentByLogin(c)
     \/ /\ op = "createIssues"
        /\ n = 0
        /\ calls' = [calls EXCEPT ![c] = Returned(k)]
        /\ inflight' = inflight
     \/ /\ \/ op = "createIssues" /\ n \in 1..MaxBatch
           \/ op = "createIssue" /\ n = 1
           \/ op \in GetOps \cup {"testConnection"} /\ n = 0
        /\ calls' = [calls EXCEPT ![c] = AfterRequest(k)]
        /\ inflight' = inflight \cup SentByRequest(c, k)

\* what the remote side (or the transport) answers to a fetch
Statuses == {"ok", "unauthorized", "error", "failed"}

\* the issue the remote side stores for a create request: the server assigns the id
CreatedIssue(c, r) == [id |-> Len(remoteIssues[c]) + 1, title |-> r.body.title]

\* ExpiresSession that takes every non-2xx status for an expired session
ExpiresSessionOnError(k, status) ==
  status \in {"unauthorized", "error"} /\ variant = "login" /\ k.op # "login"

\* ExpiresSession for a request() that has no 401 branch
NeverExpiresSession(k, status) == FALSE

\* `if (response.status === 401)` of the login service's request(): login()
\* itself fetches without request(), and the token-config service has no such test
ExpiresSession(k, status) ==
  status = "unauthorized" /\ variant = "login" /\ k.op # "login"

\* AfterFetch without the `if (!response.ok)` test: every answer is read as data
AfterFetchIgnoresStatus(k, status) ==
  IF status = "failed" THEN Failed([k EXCEPT !.status = status], ErrFetch)
  ELSE IF ExpiresSession(k, status)
       THEN Failed([k EXCEPT !.status = status], ErrSessionExpired)
  ELSE [k EXCEPT !.pc = "json", !.status = "ok"]

\* the method after its fetch settled with `status`, for call k: a rejected
\* fetch ends the call at once, a 401 inside request() too; otherwise the body
\* is awaited. k.status keeps the status of the answer.
AfterFetch(k, status) ==
  IF status = "failed" THEN Failed([k EXCEPT !.status = status], ErrFetch)
  ELSE IF ExpiresSession(k, status)
       THEN Failed([k EXCEPT !.status = status], ErrSessionExpired)
  ELSE [k EXCEPT !.pc = "json", !.status = status]

\* the fetch of call c settles: the remote side answered request r with
\* `status`, or the transport failed
Respond(c, r, status) ==
  /\ calls[c].pc = "fetch"
  /\ r \in inflight
  /\ r.call = c
  /\ inflight' = inflight \ {r}
  /\ UNCHANGED <<variant, window, apiUrl, config, reviewVars, settingsVars>>
  /\ LET created == status = "ok" /\ r.endpoint = IssuesEndpoint
         k == [calls[c] EXCEPT !.data = IF created THEN CreatedIssue(c, r) ELSE NoBody]
     IN /\ remoteIssues' = IF created
                           THEN [remoteIssues EXCEPT ![c] = Append(@, CreatedIssue(c, r))]
                           ELSE remoteIssues
        /\ calls' = [calls EXCEPT ![c] = AfterFetch(k, status)]
        /\ IF ExpiresSession(k, status)
           THEN ClearAuth /\ last' = "expired"
           ELSE UNCHANGED <<auth, localStorage, storageUsed, last>>

\* the session login() saves from the body `data` of a 2xx answer
SessionOf(data, username) ==
  [accessToken |-> data.access_token,
   refreshToken |-> data.refresh_token,
   userId |-> OrNum(data.user_id, data.id),
   userName |-> OrStr(OrStr(data.username, data.name), username)]

\* AfterCreated with results.unshift(created) for results.push(created)
AfterCreatedUnshift(k) ==
  LET pushed == [k EXCEPT !.results = <<k.data>> \o @, !.status = "none"]
  IN IF Len(pushed.results) < pushed.n THEN AfterRequest(pushed) ELSE Returned(pushed)

\* createIssues after one createIssue returned: push, then the next iteration
AfterCreated(k) ==
  LET pushed == [k EXCEPT !.results = Append(@, k.data), !.status = "none"]
  IN IF Len(pushed.results) < pushed.n THEN AfterRequest(pushed) ELSE Returned(pushed)

SentAfterCreated(c, k) ==
  LET pushed == [k EXCEPT !.results = Append(@, k.data), !.status = "none"]
  IN IF Len(pushed.results) < pushed.n THEN SentByRequest(c, pushed) ELSE {}

\* response.json() of call c settles and the method continues to its next
\* await or to its end
Settle(c, data, username) ==
  /\ calls[c].pc = "json"
  /\ UNCHANGED <<variant, window, apiUrl, config, remoteIssues, reviewVars, settingsVars>>
  /\ LET k == calls[c] IN
     \/ /\ k.status # "ok"
        /\ calls' = [calls EXCEPT ![c] =
                        Failed(k, IF k.op = "login" THEN ErrInvalidCredentials ELSE ErrRemote)]
        /\ UNCHANGED <<auth, localStorage, storageUsed, inflight, last>>
     \/ /\ k.status = "ok"
        /\ k.op = "login"
        /\ saveAuth(SessionOf(data, username))
        /\ last' = "login"
        /\ calls' = [calls EXCEPT ![c] = Returned(k)]
        /\ UNCHANGED inflight
     \/ /\ k.status = "ok"
        /\ k.op \in GetOps \cup {"testConnection"}
        /\ calls' = [calls EXCEPT ![c] = Returned(k)]
        /\ UNCHANGED <<auth, localStorage, storageUsed, inflight, last>>
     \/ /\ k.status = "ok"
        /\ k.op \in {"createIssue", "createIssues"}
        /\ calls' = [calls EXCEPT ![c] = AfterCreated(k)]
        /\ inflight' = inflight \cup SentAfterCreated(c, k)
        /\ UNCHANGED <<auth, localStorage, storageUsed, last>>

-----------------------------------------------------------------------------
(* The markdown parser: parseTicketsFromSummary                            *)
(*                                                                         *)
(* A text is a sequence of lexemes: the characters the two regular         *)
(* expressions tell apart ("|", "*", "-", " ", newline), and whole words   *)
(* and heading texts, which no match can split.                            *)

NL == "\n"

\* texts that contain "## Suggested Tickets" in some letter case
HeadingLexemes == {"## Suggested Tickets", "## suggested tickets"}

\* texts that start with "## "
Level2Lexemes == HeadingLexemes \cup {"## Next Steps"}

\* runs of word characters (\w+)
Words == {"Title", "Description", "Priority", "Fix", "login", "broken", "High",
          "Refactor", "cleanup", "soon", "Add", "tests", "missing", "low",
          "tbd", "very"}

\* String.prototype.toLowerCase on a word
toLowerCase(w) ==
  CASE w = "Title" -> "title"
    [] w = "Description" -> "description"
    [] w = "Priority" -> "priority"
    [] w = "Fix" -> "fix"
    [] w = "High" -> "high"
    [] w = "Refactor" -> "refactor"
    [] w = "Add" -> "add"
    [] OTHER -> w

\* the character classes of the two regular expressions
InClass(cls, t) ==
  CASE cls = "|" -> t = "|"
    [] cls = "*" -> t = "*"
    [] cls = "\\s" -> t \in {" ", NL}
    [] cls = "\\n" -> t = NL
    [] cls = "\\w" -> t \in Words
    [] cls = "[^|*]" -> t \notin {"|", "*"}
    [] cls = "[^|]" -> t # "|"
    [] cls = "## Suggested Tickets" -> t \in HeadingLexemes

\* /\|\s*\*?\*?([^|*]+)\*?\*?\s*\|\s*([^|]+)\s*\|\s*(\w+)\s*\|/ as its items,
\* each a class with a greedy quantifier
tableRowRegex ==
  << [cls |-> "|", q |-> "1"], [cls |-> "\\s", q |-> "*"],
     [cls |-> "*", q |-> "?"], [cls |-> "*", q |-> "?"],
     [cls |-> "[^|*]", q |-> "+"],
     [cls |-> "*", q |-> "?"], [cls |-> "*", q |-> "?"],
     [cls |-> "\\s", q |-> "*"], [cls |-> "|", q |-> "1"], [cls |-> "\\s", q |-> "*"],
     [cls |-> "[^|]", q |-> "+"],
     [cls |-> "\\s", q |-> "*"], [cls |-> "|", q |-> "1"], [cls |-> "\\s", q |-> "*"],
     [cls |-> "\\w", q |-> "+"],
     [cls |-> "\\s", q |-> "*"], [cls |-> "|", q |-> "1"] >>

\* the items that are the capture groups title, description, priority
TitleGroup == 5
DescriptionGroup == 11
PriorityGroup == 15

\* /## Suggested Tickets\s*\n/i, the part of the section expression before its
\* capture group
sectionHeadRegex ==
  << [cls |-> "## Suggested Tickets", q |-> "1"], [cls |-> "\\s", q |-> "*"],
     [cls |-> "\\n", q |-> "1"] >>

\* no match
NoMatch == <<0>>

RECURSIVE Run(_, _, _)
\* how many lexemes of s from position i on are in class cls
Run(s, cls, i) ==
  IF i <= Len(s) /\ InClass(cls, s[i]) THEN 1 + Run(s, cls, i + 1) ELSE 0

\* the fewest and the most lexemes an item takes at position i
MinCount(item) == IF item.q \in {"1", "+"} THEN 1 ELSE 0
MaxCount(s, item, i) ==
  IF item.q \in {"1", "?"}
  THEN (IF i <= Len(s) /\ InClass(item.cls, s[i]) THEN 1 ELSE 0)
  ELSE Run(s, item.cls, i)

RECURSIVE MatchAt(_, _, _, _), Backtrack(_, _, _, _, _)
\* the first match, in backtracking order, of the items p.. of re at position
\* i of s: for each of these items the position after it, or NoMatch
MatchAt(re, s, p, i) ==
  IF p > Len(re) THEN <<>>
  ELSE Backtrack(re, s, p, i, MaxCount(s, re[p], i))

\* item p takes j lexemes, or failing that fewer
Backtrack(re, s, p, i, j) ==
  IF j < MinCount(re[p]) THEN NoMatch
  ELSE LET rest == MatchAt(re, s, p + 1, i + j)
       IN IF rest # NoMatch THEN <<i + j>> \o rest
          ELSE Backtrack(re, s, p, i, j - 1)

RECURSIVE Exec(_, _, _)
\* regex.exec from lastIndex i: the leftmost match, as the start followed by
\* the positions after each item, or NoMatch
Exec(re, s, i) ==
  IF i > Len(s) THEN NoMatch
  ELSE LET m == MatchAt(re, s, 1, i)
       IN IF m # NoMatch THEN <<i>> \o m ELSE Exec(re, s, i + 1)

\* the text captured by group g of match m
Group(s, m, g) == SubSeq(s, m[g], m[g + 1] - 1)

RECURSIVE SectionEnd(_, _)
\* the lazy [\s\S]*? with its lookahead (?=\n## |$): the first position from i
\* on that is the end of the text or a newline followed by "## "
SectionEnd(s, i) ==
  IF i > Len(s) THEN i
  ELSE IF s[i] = NL /\ i < Len(s) /\ s[i + 1] \in Level2Lexemes THEN i
  ELSE SectionEnd(s, i + 1)

\* the result of String.prototype.match: null, or the capture group
NoSection == [matched |-> FALSE, text |-> <<>>]
Section(text) == [matched |-> TRUE, text |-> text]

\* SectionOf that takes the whole text when it has no heading
SectionOrText(s) ==
  LET m == Exec(sectionHeadRegex, s, 1)
  IN IF m = NoMatch THEN Section(s)
     ELSE Section(SubSeq(s, m[Len(m)], SectionEnd(s, m[Len(m)]) - 1))

\* summaryMarkdown.match(/## Suggested Tickets\s*\n([\s\S]*?)(?=\n## |$)/i):
\* the capture group, or null
SectionOf(s) ==
  LET m == Exec(sectionHeadRegex, s, 1)
  IN IF m = NoMatch THEN NoSection
     ELSE Section(SubSeq(s, m[Len(m)], SectionEnd(s, m[Len(m)]) - 1))

RECURSIVE trimStart(_), trimEnd(_)
\* String.prototype.trimStart and trimEnd
trimStart(s) == IF s # <<>> /\ InClass("\\s", Head(s)) THEN trimStart(Tail(s)) ELSE s
trimEnd(s) ==
  IF s # <<>> /\ InClass("\\s", s[Len(s)]) THEN trimEnd(SubSeq(s, 1, Len(s) - 1)) ELSE s
\* trim that removes nothing
trimNothing(s) == s
\* String.prototype.trim
trim(s) == trimEnd(trimStart(s))

\* title.toLowerCase().includes('title')
IncludesTitle(title) ==
  \E i \in 1..Len(title) : title[i] \in Words /\ toLowerCase(title[i]) = "title"

\* title.includes('---')
IncludesDashes(title) ==
  \E i \in 1..(Len(title) - 2) : title[i] = "-" /\ title[i + 1] = "-" /\ title[i + 2] = "-"

validPriorities == {"urgent", "high", "medium", "low", "none"}

\* priority.trim().toLowerCase() of a run of word lexemes: a run of several
\* is one longer word, which is none of the lexemes
JoinedWord == "<several words>"
normalizedPriority(priority) ==
  IF Len(trim(priority)) = 1 THEN toLowerCase(trim(priority)[1]) ELSE JoinedWord

\* validPriorities.includes(normalizedPriority) ? normalizedPriority : 'medium'
PriorityOf(priority) ==
  IF normalizedPriority(priority) \in validPriorities
  THEN normalizedPriority(priority)
  ELSE "medium"

\* the partial request pushed for a matched row
TicketOf(title, description, priority) ==
  [title |-> trim(title), description |-> trim(description),
   priority |-> PriorityOf(priority), status |-> "backlog"]

\* `if (title.toLowerCase().includes('title') || title.includes('---')) continue`
IsSkipped(title) == IncludesTitle(title) \/ IncludesDashes(title)

RECURSIVE RowsFrom(_, _)
\* the while loop over tableRowRegex.exec(ticketSection), from lastIndex i
RowsFrom(s, i) ==
  LET m == Exec(tableRowRegex, s, i)
  IN IF m = NoMatch THEN <<>>
     ELSE LET title == Group(s, m, TitleGroup)
              rest == RowsFrom(s, m[Len(m)])
          IN IF IsSkipped(title) THEN rest
             ELSE <<TicketOf(title, Group(s, m, DescriptionGroup),
                             Group(s, m, PriorityGroup))>> \o rest

RECURSIVE TextOf(_)
\* the text of a summary given as its blocks: each block ends with a newline
TextOf(blocks) ==
  IF blocks = <<>> THEN <<>> ELSE Head(blocks) \o <<NL>> \o TextOf(Tail(blocks))

\* parseTicketsFromSummary(summaryMarkdown)
parseTicketsFromSummary(s) ==
  IF ~SectionOf(s).matched THEN <<>> ELSE RowsFrom(SectionOf(s).text, 1)

\* the parser has not run, and it returned tickets
NotParsed == [returned |-> FALSE, tickets |-> <<>>]
Parsed(list) == [returned |-> TRUE, tickets |-> list]

\* no ticket review is on the page
ReviewNotShown ==
  /\ tickets = <<>>
  /\ selectedBoardId = UndefinedNum
  /\ isPushing = FALSE
  /\ error = ""
  /\ success = ""
  /\ issues = <<>>

\* the result handleTest shows: null, or {success, message}
NoResult == [shown |-> FALSE, success |-> FALSE, message |-> NoError]
TestResult(k) == [shown |-> TRUE, success |-> k.success, message |-> k.message]

\* the settings form is not mounted
SettingsNotShown ==
  /\ isTesting = FALSE
  /\ testResult = NoResult
  /\ settingsIsConfigured = FALSE
  /\ tempConfig = Null

-----------------------------------------------------------------------------
(* Meeting summaries *)

\* the blocks a summary is made of: heading lines, table rows, other lines
HeadingLine == <<"## Suggested Tickets">>
LowerCaseHeadingLine == <<"## suggested tickets">>
NextHeadingLine == <<"## Next Steps">>
HeaderRow ==
  <<"|", " ", "Title", " ", "|", " ", "Description", " ", "|", " ", "Priority", " ", "|">>
SeparatorRow == <<"|", "-", "-", "-", "|", "-", "-", "-", "|", "-", "-", "-", "|">>
\* | Fix login | broken | High |
LoginRow ==
  <<"|", " ", "Fix", " ", "login", " ", "|", " ", "broken", " ", "|", " ", "High", " ", "|">>
\* | Refactor | cleanup | soon |
RefactorRow ==
  <<"|", " ", "Refactor", " ", "|", " ", "cleanup", " ", "|", " ", "soon", " ", "|">>
\* | **Add tests** | tests missing | low |
BoldRow ==
  <<"|", " ", "*", "*", "Add", " ", "tests", "*", "*", " ", "|", " ", "tests", " ", "missing",
    " ", "|", " ", "low", " ", "|">>
\* | - | tbd | low |
DashRow == <<"|", " ", "-", " ", "|", " ", "tbd", " ", "|", " ", "low", " ", "|">>
\* | Fix login | broken | very High |
TwoWordPriorityRow ==
  <<"|", " ", "Fix", " ", "login", " ", "|", " ", "broken", " ", "|", " ", "very", " ", "High",
    " ", "|">>
\* | Fix login | broken |
TwoCellRow == <<"|", " ", "Fix", " ", "login", " ", "|", " ", "broken", " ", "|">>

BlankLine == <<>>
\* Fix login
ProseLine == <<"Fix", " ", "login">>
\* the header row and the separator row of a table, two lines
TableHead == HeaderRow \o <<NL>> \o SeparatorRow

Blocks ==
  { HeadingLine, LowerCaseHeadingLine, NextHeadingLine, TableHead, HeaderRow,
    SeparatorRow, LoginRow, RefactorRow, BoldRow, DashRow, TwoWordPriorityRow,
    TwoCellRow, BlankLine, ProseLine }

\* the summaries of at most MaxBlocks blocks
Summaries == UNION { [1..n -> Blocks] : n \in 0..MaxBlocks }

-----------------------------------------------------------------------------
(* The state machine *)

\* the module is loaded: `new ETTService()` ran its constructor
Init ==
  /\ variant \in {"login", "config"}
  /\ window \in BOOLEAN
  /\ apiUrl \in (IF variant = "login" THEN EnvApiUrls ELSE {""})
  /\ \E item \in (IF window THEN StoredItems(variant) ELSE {NoItem}) :
       /\ localStorage = [key \in StorageKeys |-> IF key = StorageKey THEN item ELSE NoItem]
       /\ auth = IF variant = "login" THEN loadAuth(window, item) ELSE Null
       /\ config = IF variant = "config" THEN loadConfig(window, item) ELSE Null
  /\ storageUsed = window
  /\ calls = [c \in Calls |-> IdleCall]
  /\ inflight = {}
  /\ remoteIssues = [c \in Calls |-> <<>>]
  /\ last = "construct"
  /\ summaryMarkdown = <<>>
  /\ parsed = NotParsed
  /\ ReviewNotShown
  /\ SettingsNotShown

Next ==
  \/ Logout
  \/ \E cfg \in ConfigInputs : Configure(cfg)
  \/ ClearConfig
  \/ \E c \in Calls, op \in AuthorizedOps \cup {"login"}, n \in 0..MaxBatch : Invoke(c, op, n)
  \/ \E c \in Calls, r \in inflight, status \in Statuses : Respond(c, r, status)
  \/ \E c \in Calls, data \in LoginPayloads, username \in Usernames : Settle(c, data, username)

Spec == Init /\ [][Next]_vars

-----------------------------------------------------------------------------
(* The parser on its own, applied to every summary *)

InitParser ==
  /\ variant = "login"
  /\ window = TRUE
  /\ apiUrl = "https://ett"
  /\ auth = Null
  /\ config = Null
  /\ localStorage = [key \in StorageKeys |-> NoItem]
  /\ storageUsed = TRUE
  /\ calls = [c \in Calls |-> IdleCall]
  /\ inflight = {}
  /\ remoteIssues = [c \in Calls |-> <<>>]
  /\ last = "construct"
  /\ summaryMarkdown \in Summaries
  /\ parsed = NotParsed
  /\ ReviewNotShown
  /\ SettingsNotShown

\* ParseSummary with a parser that gives up without a session
ParseSummaryOfSession ==
  /\ parsed = NotParsed
  /\ parsed' = Parsed(IF isAuthenticated \/ isConfigured
                         THEN parseTicketsFromSummary(TextOf(summaryMarkdown))
                         ELSE <<>>)
  /\ UNCHANGED <<serviceVars, settingsVars, summaryMarkdown, tickets, selectedBoardId, isPushing,
                 error, success, issues>>

\* parseTicketsFromSummary is applied to the summary
ParseSummary ==
  /\ parsed = NotParsed
  /\ parsed' = Parsed(parseTicketsFromSummary(TextOf(summaryMarkdown)))
  /\ UNCHANGED <<serviceVars, settingsVars, summaryMarkdown, tickets, selectedBoardId, isPushing,
                 error, success, issues>>

NextParser == ParseSummary

SpecParser == InitParser /\ [][NextParser]_vars

-----------------------------------------------------------------------------
(* The parser on the singleton, in every state of the session / config store *)

\* the summaries shorter than the longest ones
ShortSummaries == { s \in Summaries : Len(s) < MaxBlocks }

\* the module is loaded as in Init, and a summary arrived
InitStore ==
  /\ variant \in {"login", "config"}
  /\ window \in BOOLEAN
  /\ apiUrl \in (IF variant = "login" THEN EnvApiUrls ELSE {""})
  /\ \E item \in (IF window THEN StoredItems(variant) ELSE {NoItem}) :
       /\ localStorage = [key \in StorageKeys |-> IF key = StorageKey THEN item ELSE NoItem]
       /\ auth = IF variant = "login" THEN loadAuth(window, item) ELSE Null
       /\ config = IF variant = "config" THEN loadConfig(window, item) ELSE Null
  /\ storageUsed = window
  /\ calls = [c \in Calls |-> IdleCall]
  /\ inflight = {}
  /\ remoteIssues = [c \in Calls |-> <<>>]
  /\ last = "construct"
  /\ summaryMarkdown \in ShortSummaries
  /\ parsed = NotParsed
  /\ ReviewNotShown
  /\ SettingsNotShown

NextStore ==
  \/ ParseSummary
  \/ Logout
  \/ \E cfg \in ConfigInputs : Configure(cfg)
  \/ ClearConfig

SpecStore == InitStore /\ [][NextStore]_vars

-----------------------------------------------------------------------------
(* The ticket review: TicketReview.handlePush on the login-based service *)

\* the caller slot of the component
Review == "TicketReview"

\* null, for the number-valued selectedBoardId
NullNum == UndefinedNum

\* the ids of the boards the selector offers
BoardIds == {0, 3}

\* the messages handlePush puts into `error`, and into `success`
ErrSelectBoard == "Please select a board"
ErrSelectTicket == "Please select at least one ticket"
ErrLogIn == "Please log in to create tickets"
Successful == "Successfully created ticket(s)"

\* the i-th parsed ticket as the review lists it
ReviewTicket(i, selected) ==
  [id |-> i, title |-> i, description |-> i, priority |-> "medium", selected |-> selected]

\* the ticket lists of a review, with their checkboxes
ReviewTickets ==
  UNION { { [i \in 1..n |-> ReviewTicket(i, sel[i])] : sel \in [1..n -> BOOLEAN] } :
          n \in 0..MaxBatch }

\* the sessions the service may hold when a review is shown
ReviewSessions ==
  {Null, [StoredAuth EXCEPT !.userId = 0]}
    \cup {SessionOf(data, username) : data \in LoginPayloads, username \in Usernames}

IsSelected(t) == t.selected

\* tickets.filter((t) => t.selected)
selectedTickets == SelectSeq(tickets, IsSelected)

\* PushError without the test of currentAuth.userId
PushErrorSkipsUser ==
  IF ~TruthyNum(selectedBoardId) THEN ErrSelectBoard
  ELSE IF Len(selectedTickets) = 0 THEN ErrSelectTicket
  ELSE NoError

\* the guards at the head of handlePush: the error set, or NoError
PushError ==
  IF ~TruthyNum(selectedBoardId) THEN ErrSelectBoard
  ELSE IF Len(selectedTickets) = 0 THEN ErrSelectTicket
  ELSE IF ~TruthyNum(getAuthState.userId) THEN ErrLogIn
  ELSE NoError

\* the CreateIssueRequest handlePush builds for a selected ticket
RequestOf(t) ==
  [board_id |-> selectedBoardId, title |-> t.title, description |-> t.description,
   priority |-> t.priority, status |-> "backlog", reporter_id |-> getAuthState.userId]

\* selectedTickets.map(...)
BuiltIssues == [i \in 1..Len(selectedTickets) |-> RequestOf(selectedTickets[i])]

\* handlePush up to `await ettService.createIssues(issues)`: createIssues runs
\* to its first fetch; the body of its i-th request is issues[i]
HandlePush ==
  /\ ~isPushing
  /\ calls[Review].pc \in {"idle", "done"}
  /\ UNCHANGED <<variant, window, apiUrl, auth, config, localStorage, storageUsed, last,
                 summaryMarkdown, parsed, tickets, selectedBoardId, settingsVars>>
  /\ IF PushError # NoError
     THEN /\ error' = PushError
          /\ UNCHANGED <<calls, inflight, remoteIssues, isPushing, success, issues>>
     ELSE /\ isPushing' = TRUE
          /\ error' = NoError
          /\ success' = NoError
          /\ issues' = BuiltIssues
          /\ remoteIssues' = [remoteIssues EXCEPT ![Review] = <<>>]
          /\ LET k == NewCall("createIssues", Len(BuiltIssues)) IN
               /\ calls' = [calls EXCEPT ![Review] = AfterRequest(k)]
               /\ inflight' = inflight \cup SentByRequest(Review, k)

\* handlePush after createIssues settled: setSuccess, or the catch; finally
FinishPush ==
  /\ isPushing
  /\ calls[Review].pc = "done"
  /\ isPushing' = FALSE
  /\ IF calls[Review].outcome = "resolved"
     THEN success' = Successful /\ UNCHANGED error
     ELSE error' = calls[Review].message /\ UNCHANGED success
  /\ UNCHANGED <<serviceVars, settingsVars, summaryMarkdown, parsed, tickets, selectedBoardId, issues>>

\* a review is shown over a loaded login-based service
InitReview ==
  /\ variant = "login"
  /\ window = TRUE
  /\ apiUrl \in EnvApiUrls
  /\ auth \in ReviewSessions
  /\ config = Null
  /\ localStorage = [key \in StorageKeys |->
                       IF key = ETT_AUTH_KEY /\ auth # Null THEN JSONstringify(auth) ELSE NoItem]
  /\ storageUsed = TRUE
  /\ calls = [c \in Calls |-> IdleCall]
  /\ inflight = {}
  /\ remoteIssues = [c \in Calls |-> <<>>]
  /\ last = "construct"
  /\ summaryMarkdown = <<>>
  /\ parsed = NotParsed
  /\ tickets \in ReviewTickets
  /\ selectedBoardId \in {NullNum} \cup BoardIds
  /\ isPushing = FALSE
  /\ error = NoError
  /\ success = NoError
  /\ issues = <<>>
  /\ SettingsNotShown

NextReview ==
  \/ HandlePush
  \/ FinishPush
  \/ \E r \in inflight, status \in Statuses : Respond(Review, r, status)
  \/ \E data \in LoginPayloads, username \in Usernames : Settle(Review, data, username)

SpecReview == InitReview /\ [][NextReview]_vars

-----------------------------------------------------------------------------
(* The settings form: ETTSettings on the token-config service *)

\* the caller slot of the component
Settings == "ETTSettings"

\* what the user typed into the API URL and the access token fields
FieldUrls == {"https://ett", " https://ett ", " "}
FieldTokens == {"tokA", "tokB "}

\* what the user typed into the two optional id fields
FieldBoardIds == {"", "3"}
FieldReporterIds == {"", "7"}

\* text.trim() of a field
trimText(text) ==
  CASE text = " https://ett " -> "https://ett"
    [] text = "tokB " -> "tokB"
    [] text = " " -> ""
    [] OTHER -> text

\* text ? parseInt(text, 10) : undefined
parseIntOrUndefined(text) ==
  CASE text = "3" -> 3
    [] text = "7" -> 7
    [] OTHER -> UndefinedNum

\* the tempConfig of handleTest: no default ids
TempConfigOf(url, tok) ==
  [apiUrl |-> trimText(url), accessToken |-> trimText(tok),
   defaultBoardId |-> UndefinedNum, defaultReporterId |-> UndefinedNum]

\* the config handleSave builds from the form
SavedConfigOf(url, tok, board, reporter) ==
  [apiUrl |-> trimText(url), accessToken |-> trimText(tok),
   defaultBoardId |-> parseIntOrUndefined(board),
   defaultReporterId |-> parseIntOrUndefined(reporter)]

\* testConnection() has resolved and the rest of handleTest is due: it runs
\* before any click is handled
TestSettled == isTesting /\ calls[Settings].pc = "done"

\* FinishTest without the clearConfig() of a failed test
FinishTestKeepsConfig ==
  /\ TestSettled
  /\ testResult' = TestResult(calls[Settings])
  /\ isTesting' = FALSE
  /\ UNCHANGED <<config, localStorage, storageUsed, last, settingsIsConfigured>>
  /\ UNCHANGED <<variant, window, apiUrl, auth, calls, inflight, remoteIssues,
                 reviewVars, tempConfig>>

\* handleTest up to `await ettService.testConnection()`: the button is enabled
\* only with both fields filled and no test running, so the guard of the
\* handler passes; configure(tempConfig), then testConnection runs on the new
\* configuration to its fetch
HandleTest(url, tok) ==
  /\ variant = "config"
  /\ ~isTesting
  /\ TruthyStr(url) /\ TruthyStr(tok)
  /\ calls[Settings].pc \in {"idle", "done"}
  /\ UNCHANGED <<variant, window, apiUrl, auth, reviewVars, settingsIsConfigured>>
  /\ config' = TempConfigOf(url, tok)
  /\ SetItem(ETT_CONFIG_KEY, JSONstringify(TempConfigOf(url, tok)))
  /\ last' = "configure"
  /\ tempConfig' = TempConfigOf(url, tok)
  /\ isTesting' = TRUE
  /\ testResult' = NoResult
  /\ remoteIssues' = [remoteIssues EXCEPT ![Settings] = <<>>]
  /\ calls' = [calls EXCEPT ![Settings] = AfterRequest(NewCall("testConnection", 0))']
  /\ inflight' = inflight \cup SentByRequest(Settings, NewCall("testConnection", 0))'

\* handleTest after the await: the result is shown, and a failed test clears
\* the configuration
FinishTest ==
  /\ TestSettled
  /\ testResult' = TestResult(calls[Settings])
  /\ isTesting' = FALSE
  /\ IF ~calls[Settings].success
     THEN /\ config' = Null
          /\ RemoveItem(ETT_CONFIG_KEY)
          /\ last' = "clearConfig"
          /\ settingsIsConfigured' = FALSE
     ELSE UNCHANGED <<config, localStorage, storageUsed, last, settingsIsConfigured>>
  /\ UNCHANGED <<variant, window, apiUrl, auth, calls, inflight, remoteIssues,
                 reviewVars, tempConfig>>

\* handleSave: the button is enabled with both fields filled, also during a test
HandleSave(url, tok, board, reporter) ==
  /\ variant = "config"
  /\ TruthyStr(url) /\ TruthyStr(tok)
  /\ ~TestSettled
  /\ config' = SavedConfigOf(url, tok, board, reporter)
  /\ SetItem(ETT_CONFIG_KEY, JSONstringify(SavedConfigOf(url, tok, board, reporter)))
  /\ last' = "configure"
  /\ settingsIsConfigured' = TRUE
  /\ UNCHANGED <<variant, window, apiUrl, auth, calls, inflight, remoteIssues,
                 reviewVars, isTesting, testResult, tempConfig>>

\* handleClear: the Disconnect button is shown while isConfigured
HandleClear ==
  /\ variant = "config"
  /\ settingsIsConfigured
  /\ ~TestSettled
  /\ config' = Null
  /\ RemoveItem(ETT_CONFIG_KEY)
  /\ last' = "clearConfig"
  /\ settingsIsConfigured' = FALSE
  /\ testResult' = NoResult
  /\ UNCHANGED <<variant, window, apiUrl, auth, calls, inflight, remoteIssues,
                 reviewVars, isTesting, tempConfig>>

\* the form is mounted in a browser: the service was constructed from the
\* stored item and the effect read getConfig()
InitSettings ==
  /\ variant = "config"
  /\ window = TRUE
  /\ apiUrl = ""
  /\ auth = Null
  /\ \E item \in StoredItems("config") :
       /\ localStorage = [key \in StorageKeys |-> IF key = ETT_CONFIG_KEY THEN item ELSE NoItem]
       /\ config = loadConfig(TRUE, item)
  /\ storageUsed = TRUE
  /\ calls = [c \in Calls |-> IdleCall]
  /\ inflight = {}
  /\ remoteIssues = [c \in Calls |-> <<>>]
  /\ last = "construct"
  /\ summaryMarkdown = <<>>
  /\ parsed = NotParsed
  /\ ReviewNotShown
  /\ isTesting = FALSE
  /\ testResult = NoResult
  /\ settingsIsConfigured = (config # Null /\ getConfig.hasToken)
  /\ tempConfig = Null

NextSettings ==
  \/ \E url \in FieldUrls, tok \in FieldTokens : HandleTest(url, tok)
  \/ FinishTest
  \/ \E url \in FieldUrls, tok \in FieldTokens, board \in FieldBoardIds,
        reporter \in FieldReporterIds : HandleSave(url, tok, board, reporter)
  \/ HandleClear
  \/ \E r \in inflight, status \in Statuses : Respond(Settings, r, status)
  \/ \E data \in LoginPayloads, username \in Usernames : Settle(Settings, data, username)

SpecSettings == InitSettings /\ [][NextSettings]_vars

-----------------------------------------------------------------------------
(* Properties *)

\* the requests of call c still in flight
InFlightOf(c) == {r \in inflight : r.call = c}

\* the issues the remote side holds once exactly the first m requests of a
\* batch were created, in input order
CreatedPrefix(m) == [i \in 1..m |-> [id |-> i, title |-> Issue(i).title]]

\* the errors request() raises after a network round trip
RemoteErrors == {ErrRemote, ErrFetch, ErrSessionExpired}

\* C1: createIssues partial failure. Whenever a createIssues call has ended
\* with an error, the remote side holds exactly the requests before the
\* failing one (in input order), the error is the one the failing request
\* raised, it reached the caller as a rejection, and nothing of the call is
\* in flight (no later request is dispatched); while the failing answer's
\* body is still awaited the same prefix holds; and a createIssues call that
\* resolves has created every request, so no failure is swallowed.
C1_PartialFailure ==
  \A c \in Calls :
    LET k == calls[c] IN
      k.op = "createIssues" =>
        /\ (k.pc = "done" /\ k.outcome = "rejected") =>
             /\ Len(k.results) < k.n
             /\ remoteIssues[c] = CreatedPrefix(Len(k.results))
             /\ k.results = remoteIssues[c]
             /\ k.message # NoError
             /\ (k.status # "none" <=> k.message \in RemoteErrors)
             /\ InFlightOf(c) = {}
        /\ (k.pc = "json" /\ k.status # "ok") =>
             /\ remoteIssues[c] = CreatedPrefix(Len(k.results))
             /\ InFlightOf(c) = {}
        /\ (k.pc = "done" /\ k.outcome = "resolved") =>
             /\ remoteIssues[c] = CreatedPrefix(k.n)
             /\ k.results = remoteIssues[c]

\* C1 witness: createIssues([a, b, c]) ended with the remote error of b: a is
\* created, c was never sent
C1_Witness ==
  \E c \in Calls :
    /\ calls[c].op = "createIssues" /\ calls[c].n = 3
    /\ calls[c].pc = "done" /\ calls[c].outcome = "rejected"
    /\ calls[c].message = ErrRemote
    /\ remoteIssues[c] = CreatedPrefix(1)

\* C2: createIssues serialization. A call never has more than one request
\* in flight; a request is in flight only while the call awaits its fetch; and
\* the create request in flight is the one for element i+1 exactly when the
\* answers for elements 1..i have been received and pushed, i of them created
\* on the remote side in input order.
C2_Serialized ==
  \A c \in Calls :
    LET k == calls[c] IN
      /\ Cardinality(InFlightOf(c)) <= 1
      /\ InFlightOf(c) # {} <=> k.pc = "fetch"
      /\ \A r \in InFlightOf(c) :
           k.op \in {"createIssue", "createIssues"} =>
             /\ r.body = Issue(Len(k.results) + 1)
             /\ Len(k.results) < k.n
             /\ remoteIssues[c] = CreatedPrefix(Len(k.results))
             /\ k.results = remoteIssues[c]

\* C2 witness: the request for the second element is in flight after the
\* first was answered
C2_Witness ==
  \E c \in Calls :
    /\ calls[c].op = "createIssues" /\ calls[c].n >= 2
    /\ Len(calls[c].results) = 1
    /\ \E r \in InFlightOf(c) : r.body = Issue(2)

\* a call whose method goes through request()
IsAuthorizedCall(k) == k.op \in AuthorizedOps /\ ~(k.op = "createIssues" /\ k.n = 0)

\* the call ended in failure as its method reports one: testConnection
\* returns {success: false, message}, the other methods reject with message
FailedWith(k, messages) ==
  /\ k.pc = "done"
  /\ ~k.success
  /\ k.message \in messages
  /\ k.outcome = IF k.op = "testConnection" THEN "resolved" ELSE "rejected"

\* no authorized call started now would send a request
NothingWouldBeSent ==
  /\ RequestError # NoError
  /\ \A c \in Calls, op \in AuthorizedOps, n \in 0..MaxBatch :
       SentByRequest(c, NewCall(op, n)) = {}

\* the persisted record under the service's fixed key is gone
NothingPersisted == localStorage[StorageKey] = NoItem

\* C3: 401 invalidation (login-based service). In the step in which the fetch
\* of an authorized call is answered with HTTP 401, the call fails with the
\* session-expired error, and in the state right after it isAuthenticated()
\* is false, getAuthState() carries neither user name nor user id, the
\* persisted record under ett_auth is gone, and an authorized call started
\* next fails its guards and sends nothing.
C3_Invalidation401 ==
  [][\A c \in Calls :
       ( /\ variant = "login"
         /\ calls[c].pc = "fetch"
         /\ IsAuthorizedCall(calls[c])
         /\ calls'[c].pc # "fetch"
         /\ calls'[c].status = "unauthorized" )
       => /\ FailedWith(calls'[c], {ErrSessionExpired})
          /\ ~isAuthenticated'
          /\ getAuthState' = [isAuthenticated |-> FALSE, userName |-> undefined,
                              userId |-> UndefinedNum]
          /\ NothingPersisted'
          /\ NothingWouldBeSent'
          /\ InFlightOf(c)' = {}
    ]_vars

\* C3 witness: a createIssues call of a logged-in browser session was
\* answered 401 and the session is gone
C3_Witness ==
  \E c \in Calls :
    /\ variant = "login" /\ window
    /\ calls[c].op = "createIssues"
    /\ calls[c].pc = "done" /\ calls[c].status = "unauthorized"
    /\ calls[c].message = ErrSessionExpired
    /\ last = "expired"
    /\ auth = Null

\* the login-based service holds no usable base URL or no access token
LoginNotReady ==
  \/ apiUrl = ""
  \/ auth = Null
  \/ auth.accessToken \in {"", undefined}

\* call c runs request() in this step: its method starts, or its createIssues
\* loop enters the next iteration
RunsRequest(c) ==
  \/ /\ calls[c].pc \in {"idle", "done"}
     /\ calls'[c].pc # "idle"
     /\ IsAuthorizedCall(calls'[c])
     /\ calls'[c].results = <<>>
     /\ calls'[c].status = "none"
     /\ calls'[c] # calls[c] \/ calls[c].pc = "done"
  \/ /\ calls[c].pc = "json"
     /\ calls[c].op = "createIssues"
     /\ calls[c].status = "ok"
     /\ Len(calls[c].results) + 1 < calls[c].n
     /\ calls'[c] # calls[c]

\* C4: token-config service. In every step taken while the held record has
\* an empty apiUrl (after configure({apiUrl: "", accessToken: "x"})), no HTTP
\* request is dispatched, and every call that runs request() in that step
\* ends at once with a configuration error.
C4_NoDispatchWithoutApiUrl ==
  [][ (variant = "config" /\ last = "configure" /\ config # Null /\ config.apiUrl = "")
      => /\ inflight' \subseteq inflight
         /\ \A c \in Calls :
              RunsRequest(c) => FailedWith(calls'[c], ConfigurationErrors)
    ]_vars

\* C5: fail-fast in the login-based service. In every step taken from a state
\* where the base URL is empty or no access token is held, no authorized
\* request is dispatched, and every call that runs request() in that step
\* ends at once with the descriptive configuration error of the failed guard.
C5_FailFast ==
  [][ (variant = "login" /\ LoginNotReady)
      => /\ \A r \in inflight' \ inflight : r.endpoint = LoginEndpoint
         /\ \A c \in Calls :
              RunsRequest(c) =>
                FailedWith(calls'[c],
                           IF apiUrl = "" THEN {ErrNoApiUrl} ELSE {ErrNotAuthenticated})
    ]_vars

\* C5 witness: with an empty base URL and a session loaded from the persisted
\* store, getTeamMembers was refused and nothing is in flight
C5_Witness ==
  \E c \in Calls :
    /\ variant = "login" /\ apiUrl = "" /\ auth # Null /\ isAuthenticated
    /\ calls[c].op = "getTeamMembers"
    /\ FailedWith(calls[c], {ErrNoApiUrl})
    /\ inflight = {}

\* the access credential the session / config store holds, undefined if none
HeldCredential ==
  IF variant = "login"
  THEN IF auth = Null THEN undefined ELSE auth.accessToken
  ELSE IF config = Null THEN undefined ELSE config.accessToken

\* C6: credential at dispatch (both services). Every authorized request that
\* is dispatched carries as bearer token the credential the store holds at
\* that moment, and that credential is non-empty; hence nothing is dispatched
\* while the store holds no record or an empty credential, and no request
\* dispatched after logout() / clearConfig() carries the removed token.
C6_CredentialAtDispatch ==
  [][\A r \in inflight' \ inflight :
       r.endpoint # LoginEndpoint =>
         /\ HeldCredential \notin {"", undefined}
         /\ r.bearer = HeldCredential
    ]_vars

\* the access tokens a store may hold
Tokens == {"tokA", "tokB"}

\* C7: redaction. The views getAuthState() and getConfig() do not change
\* when the held non-empty access token is replaced by any other non-empty
\* token, no string of a view is the held token, and getConfig().hasToken is
\* true iff the held token is non-empty.
C7_Redaction ==
  /\ (variant = "login" /\ auth # Null) =>
       /\ auth.accessToken \notin {"", undefined} =>
            /\ \A t \in Tokens : AuthStateOf([auth EXCEPT !.accessToken = t]) = getAuthState
            /\ getAuthState.userName # auth.accessToken
       /\ DOMAIN getAuthState = {"isAuthenticated", "userName", "userId"}
  /\ (variant = "config" /\ config # Null) =>
       /\ config.accessToken \notin {"", undefined} =>
            /\ \A t \in Tokens : ConfigViewOf([config EXCEPT !.accessToken = t]) = getConfig
            /\ getConfig.apiUrl # config.accessToken
       /\ getConfig.hasToken <=> config.accessToken \notin {"", undefined}
       /\ DOMAIN getConfig = {"apiUrl", "defaultBoardId", "defaultReporterId", "hasToken"}

\* C7 witness: a session obtained by login holds a token and a user identity
C7_Witness ==
  /\ variant = "login" /\ last = "login"
  /\ auth # Null /\ auth.accessToken = "tokA"
  /\ getAuthState.isAuthenticated /\ getAuthState.userName = "alice"

\* C8 as claimed: isAuthenticated() is true iff a session record exists and
\* the service carries both a non-empty base URL and a non-empty credential.
C8_AuthenticatedNeedsBaseUrl ==
  variant = "login" =>
    (isAuthenticated <=>
       /\ auth # Null
       /\ apiUrl # ""
       /\ auth.accessToken \notin {"", undefined})

\* C8 amended: isAuthenticated() is true iff a session record exists and
\* carries a non-empty access token, whatever the base URL is; with an empty
\* base URL it is hasApiUrl() that is false, and it is true iff the base URL
\* is non-empty.
C8_AuthenticatedIffToken ==
  variant = "login" =>
    /\ isAuthenticated <=> (auth # Null /\ auth.accessToken \notin {"", undefined})
    /\ hasApiUrl <=> apiUrl # ""

\* C8 witness: a session with a token loaded from the persisted store while
\* the base URL is empty: isAuthenticated() is true
C8_Witness ==
  /\ variant = "login" /\ apiUrl = ""
  /\ auth # Null /\ auth.accessToken = "tokA"
  /\ isAuthenticated

\* C9: token-config service. isConfigured() is true iff a config record is
\* held and both its apiUrl and its accessToken are non-empty.
C9_ConfiguredIff ==
  variant = "config" =>
    (isConfigured <=>
       /\ config # Null
       /\ config.apiUrl \notin {"", undefined}
       /\ config.accessToken \notin {"", undefined})

\* C9 witness: after a configure with an empty apiUrl isConfigured() is false
\* although a token is held
C9_Witness ==
  /\ variant = "config" /\ last = "configure"
  /\ config # Null /\ config.apiUrl = "" /\ config.accessToken = "tokA"
  /\ ~isConfigured

\* the record the loaded service holds
HeldRecord == IF variant = "login" THEN auth ELSE config

\* C10: logout() and clearConfig() can be called in every state, leave
\* neither the in-memory record nor its persisted copy, and calling them again
\* right afterwards changes nothing.
C10_ClearIdempotent ==
  /\ (variant = "login") => ENABLED Logout
  /\ (variant = "config") => ENABLED ClearConfig
  /\ last \in {"logout", "clearConfig"} =>
       /\ HeldRecord = Null
       /\ NothingPersisted
       /\ ~ENABLED <<Logout>>_vars
       /\ ~ENABLED <<ClearConfig>>_vars

\* C10 witness: logout() ran in a browser while a request of the session it
\* removed is still in flight
C10_Witness ==
  /\ variant = "login" /\ window /\ last = "logout"
  /\ auth = Null
  /\ \E r \in inflight : r.bearer = "tokA"

\* the operations that change the session / config record
MutatingOps == {"configure", "clearConfig", "login", "logout", "expired"}

\* C11: persisted mirror. In a browser, after every completed mutating
\* operation (configure, clearConfig, successful login, logout, 401
\* invalidation) the item under the service's fixed key is present iff the
\* in-memory record is non-null, and is then the serialization of that
\* record; after configure(r) the held record is r, whatever was held before;
\* and every authorized request the token-config service dispatches carries
\* the base URL and the token of the record held at that moment.
C11_PersistedMirror ==
  /\ [](( window /\ last \in MutatingOps ) =>
          /\ localStorage[StorageKey] = NoItem <=> HeldRecord = Null
          /\ HeldRecord # Null => localStorage[StorageKey] = JSONstringify(HeldRecord)
          /\ \A key \in StorageKeys \ {StorageKey} : localStorage[key] = NoItem)
  /\ [](last = "configure" => config \in ConfigInputs)
  /\ [][ /\ \A cfg \in ConfigInputs : Configure(cfg) => HeldRecord' = cfg
         /\ variant = "config" =>
              \A r \in inflight' \ inflight :
                /\ config # Null
                /\ r.baseUrl = config.apiUrl
                /\ r.bearer = config.accessToken
       ]_vars

\* C11 witness: a browser session saved by login() from an answer that carried
\* only a token: the persisted item is the serialization of the held record,
\* without its undefined properties
C11_Witness ==
  /\ variant = "login" /\ window /\ last = "login"
  /\ auth # Null /\ auth.accessToken = "tokB"
  /\ localStorage[ETT_AUTH_KEY] = JSONstringify(auth)
  /\ DOMAIN localStorage[ETT_AUTH_KEY].fields = {"accessToken", "userName"}

\* persisted data that is missing, unparseable, or not shaped as a record
MalformedItems ==
  {NoItem, EmptyText, CorruptText, NullText, [kind |-> "object", fields |-> NoFields]}

\* C12: load tolerance. After a construction that found missing, unparseable
\* or wrongly shaped data under the key, and until the record is next changed,
\* isAuthenticated() and isConfigured() are false, and in every step no
\* authorized request is dispatched and every call that runs request() ends
\* at once with a configuration error.
C12_LoadTolerance ==
  [][ (last = "construct" /\ localStorage[StorageKey] \in MalformedItems)
      => /\ ~isAuthenticated
         /\ ~isConfigured
         /\ \A r \in inflight' \ inflight : r.endpoint = LoginEndpoint
         /\ \A c \in Calls :
              RunsRequest(c) => FailedWith(calls'[c], ConfigurationErrors)
    ]_vars

\* the message of the error getBoards() raises for an answer with `status`
\* ("none": the error was raised before any answer)
BoardListingErrors(status) ==
  CASE status = "none" -> ConfigurationErrors \cup {ErrInvalidUrl}
    [] status = "failed" -> {ErrFetch}
    [] status = "unauthorized" -> IF variant = "login" THEN {ErrSessionExpired} ELSE {ErrRemote}
    [] status = "error" -> {ErrRemote}
    [] OTHER -> {}

\* C13: testConnection() never raises. Every testConnection call that has
\* ended has resolved, never rejected; it returned success: true iff its
\* board-listing request was answered 2xx, and otherwise success: false with
\* the message of the error the board listing raised: the configuration error
\* when nothing was dispatched, the remote error for a non-2xx answer, the
\* transport error when the fetch failed; and nothing of it stays in flight.
C13_TestConnectionNeverRaises ==
  \A c \in Calls :
    LET k == calls[c] IN
      k.op = "testConnection" =>
        /\ k.outcome # "rejected"
        /\ k.pc = "done" =>
             /\ k.outcome = "resolved"
             /\ k.success <=> k.status = "ok"
             /\ ~k.success => k.message \in BoardListingErrors(k.status)
             /\ (k.message \in ConfigurationErrors) => RequestError = k.message \/ last # "construct"
             /\ InFlightOf(c) = {}
        /\ k.pc # "done" => k.outcome = "pending"

\* C13 witness: testConnection() on a login-based service without a session
\* returned {success: false, "Not authenticated..."} and sent nothing
C13_Witness ==
  \E c \in Calls :
    /\ variant = "login" /\ auth = Null /\ last = "construct"
    /\ calls[c].op = "testConnection" /\ calls[c].pc = "done"
    /\ calls[c].outcome = "resolved" /\ ~calls[c].success
    /\ calls[c].message = ErrNotAuthenticated
    /\ inflight = {}

\* the blocks that are the "Suggested Tickets" heading, in some letter case,
\* and those that are a level-2 heading
IsHeadingBlock(b) == b \in {HeadingLine, LowerCaseHeadingLine}
IsLevel2Block(b) == IsHeadingBlock(b) \/ b = NextHeadingLine

\* the well-formed {title, description, priority} rows among the blocks, and
\* the ticket each of them stands for: its trimmed cells, its priority
\* lower-cased, or medium for a priority outside the enumeration
DataRows == {LoginRow, RefactorRow, BoldRow}
WellFormedRows == DataRows \cup {DashRow}
TicketOfRow(row) ==
  CASE row = LoginRow ->
         [title |-> <<"Fix", " ", "login">>, description |-> <<"broken">>,
          priority |-> "high", status |-> "backlog"]
    [] row = RefactorRow ->
         [title |-> <<"Refactor">>, description |-> <<"cleanup">>,
          priority |-> "medium", status |-> "backlog"]
    [] row = BoldRow ->
         [title |-> <<"Add", " ", "tests">>, description |-> <<"tests", " ", "missing">>,
          priority |-> "low", status |-> "backlog"]
    [] row = DashRow ->
         [title |-> <<"-">>, description |-> <<"tbd">>,
          priority |-> "low", status |-> "backlog"]

\* a summary that is the heading followed by a table of valid rows, with or
\* without the header and separator rows; and the index of its first data row
FirstDataRow(blocks) == IF Len(blocks) >= 2 /\ blocks[2] = TableHead THEN 3 ELSE 2
IsTicketTable(blocks) ==
  /\ Len(blocks) >= FirstDataRow(blocks)
  /\ IsHeadingBlock(blocks[1])
  /\ \A i \in FirstDataRow(blocks)..Len(blocks) : blocks[i] \in DataRows

\* C14: parser row extraction. For every summary that is a correctly headed
\* table of valid rows, optionally preceded by the header and separator rows,
\* the parser returns exactly one ticket per data row, in row order, with the
\* trimmed cells of the row as title and description and with priority medium
\* iff the row's priority is not in the enumeration.
C14_RowExtraction ==
  (parsed.returned /\ IsTicketTable(summaryMarkdown)) =>
    LET first == FirstDataRow(summaryMarkdown)
        n == Len(summaryMarkdown) - first + 1
    IN parsed.tickets = [i \in 1..n |-> TicketOfRow(summaryMarkdown[first + i - 1])]

\* C15: parser with no section. For every summary without a "Suggested
\* Tickets" heading, the empty one included, what the parser returned is the
\* empty sequence.
C15_NoSection ==
  ( /\ parsed.returned
    /\ \A i \in 1..Len(summaryMarkdown) : ~IsHeadingBlock(summaryMarkdown[i]) )
  => parsed.tickets = <<>>

\* C15 witness: a summary with table rows but no heading was parsed to nothing
C15_Witness ==
  /\ parsed.returned
  /\ summaryMarkdown = <<TableHead, LoginRow, BoldRow>>
  /\ parsed.tickets = <<>>

\* a title cell that consists only of dashes
OnlyDashes(title) == title # <<>> /\ \A i \in 1..Len(title) : title[i] = "-"

\* C16: parser header/separator exclusion. No returned ticket has a title
\* that contains "title" in any letter case, nor one that consists only of
\* dashes, of any length.
C16_HeaderSeparatorExclusion ==
  parsed.returned =>
    \A i \in 1..Len(parsed.tickets) :
      /\ ~IncludesTitle(parsed.tickets[i].title)
      /\ ~OnlyDashes(parsed.tickets[i].title)

\* the blocks between the first "Suggested Tickets" heading and the next
\* level-2 heading or the end of the summary
SectionBlocks(blocks) ==
  IF \A i \in 1..Len(blocks) : ~IsHeadingBlock(blocks[i]) THEN <<>>
  ELSE LET h == CHOOSE i \in 1..Len(blocks) :
                  /\ IsHeadingBlock(blocks[i])
                  /\ \A j \in 1..(i - 1) : ~IsHeadingBlock(blocks[j])
           e == CHOOSE i \in (h + 1)..(Len(blocks) + 1) :
                  /\ i <= Len(blocks) => IsLevel2Block(blocks[i])
                  /\ \A j \in (h + 1)..(i - 1) : ~IsLevel2Block(blocks[j])
       IN SubSeq(blocks, h + 1, e - 1)

\* C17: parser section bound. The returned tickets are those of the rows
\* between the heading and the next level-2 heading (or the end of the text):
\* the rows before the heading and after the next level-2 heading give none.
C17_SectionBound ==
  parsed.returned =>
    parsed.tickets = RowsFrom(TextOf(SectionBlocks(summaryMarkdown)), 1)

\* C18: parser leniency. Every returned ticket has as title, description and
\* priority the three cells of one well-formed row of the summary: a row with
\* two cells or with a two-word priority contributes nothing.
C18_Leniency ==
  parsed.returned =>
    \A i \in 1..Len(parsed.tickets) :
      \E j \in 1..Len(summaryMarkdown) :
        /\ summaryMarkdown[j] \in WellFormedRows
        /\ parsed.tickets[i] = TicketOfRow(summaryMarkdown[j])

\* a text without leading or trailing whitespace
IsTrimmed(s) == s = <<>> \/ (~InClass("\\s", s[1]) /\ ~InClass("\\s", s[Len(s)]))

\* C19: parser output invariant. Every returned ticket, for every summary,
\* has status backlog, a priority of the enumeration, a title and a
\* description without leading or trailing whitespace, and no other property
\* (neither board_id nor reporter_id).
C19_OutputInvariant ==
  parsed.returned =>
    \A i \in 1..Len(parsed.tickets) :
      LET t == parsed.tickets[i] IN
        /\ DOMAIN t = {"title", "description", "priority", "status"}
        /\ t.status = "backlog"
        /\ t.priority \in validPriorities
        /\ IsTrimmed(t.title)
        /\ IsTrimmed(t.description)

\* C19 witness: two rows were parsed, one with its priority lower-cased and
\* one with an unknown priority replaced by medium
C19_Witness ==
  /\ parsed.returned
  /\ summaryMarkdown = <<HeadingLine, LoginRow, RefactorRow>>
  /\ parsed.tickets = <<TicketOfRow(LoginRow), TicketOfRow(RefactorRow)>>
  /\ parsed.tickets[2].priority = "medium"

\* a board is selected and the current auth state carries a user id
PushReady == TruthyNum(selectedBoardId) /\ TruthyNum(getAuthState.userId)

\* C20: submission precondition. In every run of handlePush, createIssues is
\* called, and a request is built or dispatched, only if a board is selected
\* and getAuthState() carries a user id at that moment; every request built
\* then has that board as board_id and that user id as reporter_id, and the
\* one request dispatched is the create of the first of them; in every other
\* case the step sets one of the three errors, calls nothing, builds nothing
\* and dispatches nothing.
C20_SubmissionPrecondition ==
  [][ (~isPushing /\ calls[Review].pc \in {"idle", "done"}) =>
        /\ (isPushing' \/ calls' # calls \/ inflight' # inflight \/ issues' # issues) =>
             /\ PushReady
             /\ isPushing'
             /\ calls'[Review].op = "createIssues"
             /\ calls'[Review].n = Len(issues')
             /\ Len(issues') >= 1
             /\ \A i \in 1..Len(issues') :
                  /\ issues'[i].board_id = selectedBoardId
                  /\ issues'[i].reporter_id = getAuthState.userId
             /\ \A r \in inflight' \ inflight :
                  r.call = Review /\ r.endpoint = IssuesEndpoint /\ r.body = Issue(1)
        /\ ~PushReady =>
             /\ error' \in {ErrSelectBoard, ErrSelectTicket, ErrLogIn}
             /\ UNCHANGED <<calls, inflight, remoteIssues, issues, isPushing>>
    ]_vars

\* C20 witness: with board 3 selected and user 7 logged in, handlePush built
\* the requests of the two selected tickets out of three and the create of
\* the first is in flight
C20_Witness ==
  /\ isPushing
  /\ selectedBoardId = 3
  /\ Len(tickets) = 3 /\ Len(issues) = 2
  /\ \A i \in 1..2 : issues[i].board_id = 3 /\ issues[i].reporter_id = 7
  /\ \E r \in inflight : r.call = Review /\ r.endpoint = IssuesEndpoint /\ r.bearer = "tokA"

\* C21: headless execution. Without a window object the service has neither
\* read nor written the key-value store after any operation: construction
\* yields no record whatever the store would hold, the store holds nothing
\* the service put there, and only the in-memory record changes.
C21_Headless ==
  ~window =>
    /\ ~storageUsed
    /\ \A key \in StorageKeys : localStorage[key] = NoItem
    /\ \A v \in {"login", "config"} : \A item \in StoredItems(v) :
         loadAuth(window, item) = Null /\ loadConfig(window, item) = Null
    /\ last = "construct" => HeldRecord = Null
    /\ last \in {"logout", "clearConfig", "expired"} => HeldRecord = Null
    /\ last \in {"login", "configure"} => HeldRecord # Null

\* C21 witness: a headless login succeeded: the session is held in memory and
\* the store was never touched
C21_Witness ==
  /\ ~window /\ variant = "login" /\ last = "login"
  /\ auth # Null /\ auth.accessToken = "tokA"
  /\ ~storageUsed
  /\ localStorage[ETT_AUTH_KEY] = NoItem

\* C22: parser purity. A step of parseTicketsFromSummary dispatches no request
\* and leaves the session / config record, the persisted store and every other
\* part of the service unchanged, and what it returned is determined by the
\* summary alone, whatever the service holds before or afterwards.
C22_ParserPurity ==
  /\ [](parsed.returned =>
          parsed.tickets = parseTicketsFromSummary(TextOf(summaryMarkdown)))
  /\ [][parsed' # parsed =>
          /\ inflight' = inflight
          /\ auth' = auth /\ config' = config
          /\ localStorage' = localStorage /\ storageUsed' = storageUsed
          /\ UNCHANGED serviceVars]_vars

\* C22 witness: the parser returned tickets on a service without a session
\* or configuration
C22_Witness ==
  /\ parsed.returned /\ parsed.tickets # <<>>
  /\ ~isAuthenticated /\ ~isConfigured
  /\ last \in {"logout", "clearConfig"}

\* login() of call c returns {success: true} in this step
LoginSucceeds(c) ==
  /\ calls[c].op = "login"
  /\ calls[c].pc = "json"
  /\ calls'[c].pc = "done"
  /\ calls'[c].success

\* C23: a successful login establishes a session. In the step in which
\* login() returns {success: true}, the state right afterwards has
\* isAuthenticated() true, the session persisted (in a browser), and the
\* guards of request() passed with the bearer token the response carried;
\* login() always resolves; and login() on an empty base URL sends nothing.
C23_LoginEstablishesSession ==
  /\ [][\A c \in Calls :
          LoginSucceeds(c) =>
            /\ isAuthenticated'
            /\ window => localStorage'[ETT_AUTH_KEY] = JSONstringify(auth')
            /\ RequestError' = NoError
            /\ \E data \in LoginPayloads :
                 /\ TruthyStr(data.access_token)
                 /\ BearerToken' = data.access_token
     ]_vars
  /\ [](\A c \in Calls :
          (calls[c].op = "login" /\ calls[c].pc = "done") => calls[c].outcome = "resolved")
  /\ [][\A c \in Calls :
          ( /\ ~hasApiUrl
            /\ calls[c].pc \in {"idle", "done"}
            /\ calls'[c].op = "login"
            /\ calls'[c] # calls[c] )
          => /\ inflight' = inflight
             /\ calls'[c].pc = "done" /\ ~calls'[c].success
             /\ calls'[c].message = ErrNoApiUrl
     ]_vars

\* the fetch of call c is answered 401 by request() of the login-based service
Answered401(c) ==
  /\ variant = "login"
  /\ calls[c].pc = "fetch"
  /\ calls[c].op # "login"
  /\ calls'[c].status = "unauthorized"

\* C24: session frame. A step changes the session / config record or an item
\* of the persisted store only if it is configure, clearConfig or logout, a
\* login returning success, or (login-based service) a 401 answer to an
\* authorized request; every other step of a call (a method starting, a
\* rejected or failed login, a non-401 non-2xx answer, a transport failure, a
\* successful read or create, and in the token-config service every answer)
\* leaves both unchanged.
C24_SessionFrame ==
  /\ [][(auth' # auth \/ config' # config \/ localStorage' # localStorage) =>
          \/ calls' = calls /\ inflight' = inflight
               /\ last' \in {"logout", "configure", "clearConfig"}
          \/ \E c \in Calls : LoginSucceeds(c) /\ last' = "login"
          \/ \E c \in Calls : Answered401(c) /\ last' = "expired"
     ]_vars
  /\ [][\A c \in Calls :
          ( /\ calls'[c] # calls[c]
            /\ ~LoginSucceeds(c)
            /\ ~Answered401(c) )
          => UNCHANGED <<auth, config, localStorage, storageUsed, last>>
     ]_vars

\* C24 witness: in a browser the token-config service was answered 401 and
\* still holds its configuration and the persisted copy
C24_Witness ==
  \E c \in Calls :
    /\ variant = "config" /\ window
    /\ calls[c].pc = "done" /\ calls[c].status = "unauthorized"
    /\ config # Null
    /\ last = "configure"
    /\ localStorage[ETT_CONFIG_KEY] = JSONstringify(config)

\* C25: stale 401 under interleaving. When request() is answered 401 for a
\* request that was sent with another token than the one of the session held
\* now (a login succeeded while the request was in flight), the step leaves
\* the held session and its persisted copy as they are.
C25_Stale401 ==
  [][\A c \in Calls : \A r \in inflight :
       ( /\ Answered401(c)
         /\ r.call = c
         /\ r \notin inflight'
         /\ HasAccessToken(auth)
         /\ r.bearer # auth.accessToken )
       => /\ auth' = auth
          /\ isAuthenticated'
          /\ localStorage' = localStorage
    ]_vars

\* handleTest starts its test, and shows its result, in this step
TestStarts == ~isTesting /\ isTesting'
TestEnds == isTesting /\ ~isTesting'

\* the stored configuration is the record cfg, in memory and persisted
StoredConfigIs(cfg) ==
  /\ config = cfg
  /\ localStorage[ETT_CONFIG_KEY] = JSONstringify(cfg)

\* handleTest replaces the stored configuration, whatever it was, by the
\* temporary record of the two trimmed fields, and a failed test leaves no
\* configuration and no persisted record
TestReplacesAndClears ==
  /\ TestStarts =>
       /\ StoredConfigIs(tempConfig)'
       /\ \E url \in FieldUrls, tok \in FieldTokens :
            tempConfig' = [apiUrl |-> trimText(url), accessToken |-> trimText(tok),
                           defaultBoardId |-> UndefinedNum,
                           defaultReporterId |-> UndefinedNum]
       /\ DOMAIN localStorage'[ETT_CONFIG_KEY].fields \subseteq {"apiUrl", "accessToken"}
  /\ (TestEnds /\ ~testResult'.success) =>
       /\ config' = Null
       /\ NothingPersisted'

\* C26: settings connection test. handleTest replaces the stored
\* configuration by the temporary {apiUrl, accessToken} record before testing;
\* after a failed test the service holds no configuration and no persisted
\* record, whatever was saved before; after a successful test the temporary
\* record is the stored configuration.
C26_ConnectionTest ==
  [][/\ TestReplacesAndClears
     /\ (TestEnds /\ testResult'.success) => StoredConfigIs(tempConfig)'
    ]_vars

\* C26, amended: as above, but a successful test leaves the configuration as
\* it is when the answer arrives; while the test is awaited only handleSave
\* and handleClear (both buttons stay enabled) change it, so it is the
\* temporary record unless one of them ran in between.
C26_ConnectionTestUndisturbed ==
  [][/\ TestReplacesAndClears
     /\ (TestEnds /\ testResult'.success) =>
          /\ config' = config
          /\ localStorage' = localStorage
     /\ (isTesting /\ isTesting' /\ (config' # config \/ localStorage' # localStorage)) =>
          /\ calls' = calls /\ inflight' = inflight
          /\ last' \in {"configure", "clearConfig"}
          /\ settingsIsConfigured' = (last' = "configure")
     /\ (isTesting /\ isTesting' /\ calls' # calls) =>
          /\ config' = config
          /\ localStorage' = localStorage
    ]_vars

\* C26 witness: a test succeeded and the temporary record, without default
\* ids, is the stored configuration of a form that shows a saved configuration
C26_Witness ==
  /\ ~isTesting /\ testResult.shown /\ testResult.success
  /\ tempConfig # Null
  /\ StoredConfigIs(tempConfig)
  /\ config.defaultBoardId = UndefinedNum
  /\ settingsIsConfigured

\* C27: createIssues result. A createIssues call that resolved (every create
\* succeeded) returned a list as long as its input whose i-th element is the
\* issue the remote side returned for the i-th request, created from the i-th
\* input; and createIssues([]) has resolved to the empty list with nothing of
\* it in flight, whatever the session state.
C27_CreateIssuesResult ==
  \A c \in Calls :
    LET k == calls[c] IN
      k.op = "createIssues" =>
        /\ (k.pc = "done" /\ k.outcome = "resolved") =>
             /\ Len(k.results) = k.n
             /\ Len(remoteIssues[c]) = k.n
             /\ \A i \in 1..k.n :
                  /\ k.results[i] = remoteIssues[c][i]
                  /\ k.results[i].title = Issue(i).title
        /\ k.n = 0 =>
             /\ k.pc = "done" /\ k.outcome = "resolved"
             /\ k.results = <<>>
             /\ InFlightOf(c) = {}
             /\ remoteIssues[c] = <<>>

\* C27 witness: one caller's createIssues of three requests resolved, and after
\* the session was dropped the other caller's createIssues([]) resolved
C27_Witness ==
  \E c \in Calls : \E d \in Calls \ {c} :
    /\ calls[c].op = "createIssues" /\ calls[c].n = 3
    /\ calls[c].pc = "done" /\ calls[c].outcome = "resolved"
    /\ calls[d].op = "createIssues" /\ calls[d].n = 0
    /\ calls[d].pc = "done" /\ calls[d].outcome = "resolved"
    /\ ~isAuthenticated /\ ~isConfigured
    /\ last \in {"logout", "clearConfig", "expired"}

====
